---- MODULE Spec2Model ----
(***************************************************************************)
(* Model of src/src/slacker.py: SlackerBot.process_channel and the four    *)
(* components it sequences (fetch_messages, generate_summary,              *)
(* save_to_file, format_slack_message + post_to_slack).                    *)
(*                                                                         *)
(* One run of process_channel is one behaviour.  Every call of an external *)
(* client (Slack history, Slack post, the generation service, the file     *)
(* system) is one action whose outcome is chosen by the environment; the   *)
(* Python that runs between two external calls is part of the action that  *)
(* precedes it.                                                            *)
(*                                                                         *)
(* Python values are tagged records [t, v]:                                *)
(*   None       [t |-> "none", v |-> <<>>]                                 *)
(*   str        [t |-> "str",  v |-> <<tokens>>]                           *)
(*   list       [t |-> "list", v |-> <<values>>]                           *)
(*   dict       [t |-> "dict", v |-> << <<key, value>>, ... >>] in         *)
(*              insertion order, keys unique                               *)
(*   bool, int, float   [t |-> "bool", v |-> <<repr>>] and likewise        *)
(* A text is a sequence of tokens.  The tokens "{" "}" "[" "]" ":" "," are *)
(* the JSON punctuation characters, a token of StrToks is one quoted JSON  *)
(* string literal (none of which contains a brace), a token of LiteralVal  *)
(* is a JSON literal or number, DeepOpen and DeepClose are runs of "[" and *)
(* of "]" longer than the interpreter's recursion limit, any other token   *)
(* is a word of prose.  Whitespace, which JSON ignores, is not             *)
(* represented.                                                            *)
(***************************************************************************)
EXTENDS Integers, Sequences, FiniteSets, TLC

VARIABLES
    entry,          \* the function that is run: process_channel or a test function
    post_to_slack,  \* process_channel's argument
    window,         \* [start_time, end_time], process_channel's arguments
    writeMock,      \* how the file system answers open()/write()
    postMock,       \* how chat_postMessage answers
    pc,             \* position of process_channel
    history,        \* pages conversations_history has returned, in order
    requests,       \* the conversations_history requests issued, in order
    fetchError,     \* "" or the class of exception a history request raised
    messages,       \* fetch_messages' accumulator, then process_channel's messages
    svcCalls,       \* number of anthropic_client.messages.create calls
    reply,          \* what the generation service answered
    summary,        \* generate_summary's return value
    file,           \* content of output_file
    file_success,   \* "unset", "True", "False"
    formatted,      \* what format_slack_message returned, call by call
    posted,         \* block sequences sent to the channel
    slack_success,  \* "unset", "True", "False"
    calls,          \* component methods process_channel has invoked, in order
    ret             \* "pending", "True", "False", "None" or "raised:<class>"

vars == <<entry, post_to_slack, window, writeMock, postMock, pc, history,
          requests, fetchError, messages, svcCalls, reply, summary, file,
          file_success, formatted, posted, slack_success, calls, ret>>

-----------------------------------------------------------------------------
(* Bounds and program constants *)

\* Largest number of history pages the transport API serves in one run.
MaxPages == 2

\* limit=100 of both conversations_history requests.
PageLimit == 100

-----------------------------------------------------------------------------
(* Python values *)

None == [t |-> "none", v |-> <<>>]
Str(s) == [t |-> "str", v |-> s]
List(s) == [t |-> "list", v |-> s]
Dict(s) == [t |-> "dict", v |-> s]
PyBoolean(r) == [t |-> "bool", v |-> <<r>>]
PyInt(r) == [t |-> "int", v |-> <<r>>]
PyFloat(r) == [t |-> "float", v |-> <<r>>]

\* bool(x): None, False, 0, 0.0, -0.0 and the empty str, list and dict are
\* false.  An int or float is held by its repr.
Truthy(x) ==
    IF x.t = "none" THEN FALSE
    ELSE IF x.t = "bool" THEN x = PyBoolean("True")
    ELSE IF x.t = "int" THEN x # PyInt("0")
    ELSE IF x.t = "float" THEN x \notin {PyFloat("0.0"), PyFloat("-0.0")}
    ELSE x.v # <<>>

\* iter(x) is defined: str, list and dict are iterable, the rest is not
Iterable(x) == x.t \in {"str", "list", "dict"}

HasKey(d, k) == \E i \in 1..Len(d.v) : d.v[i][1] = k

\* d[k] for a key the dict has
Get(d, k) == d.v[CHOOSE i \in 1..Len(d.v) : d.v[i][1] = k][2]

\* d[k] = x on the pair list of a dict: a key already present keeps its place
Put(ps, k, x) ==
    IF \E i \in 1..Len(ps) : ps[i][1] = k
    THEN [i \in 1..Len(ps) |-> IF ps[i][1] = k THEN <<k, x>> ELSE ps[i]]
    ELSE Append(ps, <<k, x>>)

-----------------------------------------------------------------------------
(* json.loads *)

\* Quoted string literals of the model output and the Python str each denotes.
StrVal ==
    ( "\"summary\""      :> "summary"
   @@ "\"action_items\"" :> "action_items"
   @@ "\"decisions\""    :> "decisions"
   @@ "\"Test summary\"" :> "Test summary"
   @@ "\"Item 1\""       :> "Item 1"
   @@ "\"Item 2\""       :> "Item 2"
   @@ "\"Decision 1\""   :> "Decision 1" )

StrToks == DOMAIN StrVal

\* The characters of the strings and words of more than one character.
CharsOf ==
    ( "summary" :> <<"s", "u", "m", "m", "a", "r", "y">>
   @@ "action_items" :> <<"a", "c", "t", "i", "o", "n", "_", "i", "t", "e", "m", "s">>
   @@ "decisions" :> <<"d", "e", "c", "i", "s", "i", "o", "n", "s">>
   @@ "Test summary" :> <<"T", "e", "s", "t", " ", "s", "u", "m", "m", "a", "r", "y">>
   @@ "Item 1" :> <<"I", "t", "e", "m", " ", "1">>
   @@ "Item 2" :> <<"I", "t", "e", "m", " ", "2">>
   @@ "Decision 1" :> <<"D", "e", "c", "i", "s", "i", "o", "n", " ", "1">>
   @@ "Sure!" :> <<"S", "u", "r", "e", "!">>
   @@ "Hope this helps!" :> <<"H", "o", "p", "e", " ", "t", "h", "i", "s", " ", "h", "e", "l", "p", "s", "!">>
   @@ "null" :> <<"n", "u", "l", "l">>
   @@ "true" :> <<"t", "r", "u", "e">>
   @@ "false" :> <<"f", "a", "l", "s", "e">>
   @@ "0.0" :> <<"0", ".", "0">>
   @@ "-0.0" :> <<"-", "0", ".", "0">>
   @@ "1.5" :> <<"1", ".", "5">>
   @@ "NaN" :> <<"N", "a", "N">>
   @@ "No messages found in the specified timeframe." :> <<"N", "o", " ", "m", "e", "s", "s", "a", "g", "e", "s", " ", "f", "o", "u", "n", "d", " ", "i", "n", " ", "t", "h", "e", " ", "s", "p", "e", "c", "i", "f", "i", "e", "d", " ", "t", "i", "m", "e", "f", "r", "a", "m", "e", ".">> )

\* The JSON literals and numbers of the model output and the Python value of each.
LiteralVal ==
    ( "null"  :> None
   @@ "true"  :> PyBoolean("True")
   @@ "false" :> PyBoolean("False")
   @@ "0"     :> PyInt("0")
   @@ "1"     :> PyInt("1")
   @@ "0.0"   :> PyFloat("0.0")
   @@ "-0.0"  :> PyFloat("-0.0")
   @@ "1.5"   :> PyFloat("1.5")
   @@ "NaN"   :> PyFloat("nan") )

LiteralToks == DOMAIN LiteralVal

\* A run of "[" (of "]") longer than the recursion limit of the interpreter.
DeepOpen == "[[[... 1100 times"
DeepClose == "]]]... 1100 times"

\* json.loads raises JSONDecodeError
ParseFail == [ok |-> FALSE, err |-> "JSONDecodeError", val |-> None, next |-> 0]
\* json.loads raises RecursionError
ParseTooDeep == [ok |-> FALSE, err |-> "RecursionError", val |-> None, next |-> 0]
ParseOk(x, n) == [ok |-> TRUE, err |-> "", val |-> x, next |-> n]

RECURSIVE ParseValue(_, _), ParseMembers(_, _, _), ParseElements(_, _, _)

\* One JSON value starting at token i of s: a string, a literal or number,
\* an object or an array.  The scanner recurses once per nested array, so a
\* run of DeepOpen exhausts the recursion limit before anything after it is
\* read.
ParseValue(s, i) ==
    IF i > Len(s) THEN ParseFail
    ELSE IF s[i] \in StrToks THEN ParseOk(Str(<<StrVal[s[i]]>>), i + 1)
    ELSE IF s[i] \in LiteralToks THEN ParseOk(LiteralVal[s[i]], i + 1)
    ELSE IF s[i] = "{"
        THEN IF i + 1 <= Len(s) /\ s[i + 1] = "}"
             THEN ParseOk(Dict(<<>>), i + 2)
             ELSE ParseMembers(s, i + 1, <<>>)
    ELSE IF s[i] = "["
        THEN IF i + 1 <= Len(s) /\ s[i + 1] = "]"
             THEN ParseOk(List(<<>>), i + 2)
             ELSE ParseElements(s, i + 1, <<>>)
    ELSE IF s[i] = DeepOpen THEN ParseTooDeep
    ELSE ParseFail

\* string ":" value, then "," and another member or the closing "}".
ParseMembers(s, i, acc) ==
    IF i + 1 > Len(s) \/ s[i] \notin StrToks \/ s[i + 1] # ":" THEN ParseFail
    ELSE LET r == ParseValue(s, i + 2) IN
         IF ~r.ok THEN r
         ELSE IF r.next > Len(s) THEN ParseFail
         ELSE LET acc2 == Put(acc, StrVal[s[i]], r.val) IN
              IF s[r.next] = "}" THEN ParseOk(Dict(acc2), r.next + 1)
              ELSE IF s[r.next] = ","
                  THEN ParseMembers(s, r.next + 1, acc2)
              ELSE ParseFail

\* value, then "," and another element or the closing "]".
ParseElements(s, i, acc) ==
    LET r == ParseValue(s, i) IN
    IF ~r.ok THEN r
    ELSE IF r.next > Len(s) THEN ParseFail
    ELSE LET acc2 == Append(acc, r.val) IN
         IF s[r.next] = "]" THEN ParseOk(List(acc2), r.next + 1)
         ELSE IF s[r.next] = ","
             THEN ParseElements(s, r.next + 1, acc2)
         ELSE ParseFail

\* json.loads(s): the value when s is exactly one JSON value; else
\* JSONDecodeError (empty input, malformed value, or extra data after it), or
\* RecursionError when the scanner runs out of stack first.
JsonLoads(s) ==
    LET r == ParseValue(s, 1) IN
    IF r.ok /\ r.next = Len(s) + 1 THEN [ok |-> TRUE, err |-> "", val |-> r.val]
    ELSE IF r.ok THEN [ok |-> FALSE, err |-> "JSONDecodeError", val |-> None]
    ELSE [ok |-> FALSE, err |-> r.err, val |-> None]

-----------------------------------------------------------------------------
(* generate_summary: extraction of the Digest from the model output *)

\* str.find(c): 0-based index of the first c, -1 when there is none
Find(text, c) ==
    IF \E i \in 1..Len(text) : text[i] = c
    THEN (CHOOSE i \in 1..Len(text) :
              text[i] = c /\ \A j \in 1..(i - 1) : text[j] # c) - 1
    ELSE -1

\* str.rfind(c): 0-based index of the last c, -1 when there is none
RFind(text, c) ==
    IF \E i \in 1..Len(text) : text[i] = c
    THEN (CHOOSE i \in 1..Len(text) :
              text[i] = c /\ \A j \in (i + 1)..Len(text) : text[j] # c) - 1
    ELSE -1

\* text[a:b] for 0 <= a and 0 <= b
Slice(text, a, b) == SubSeq(text, a + 1, b)

StartIdx(text) == Find(text, "{")

EndIdx(text) == RFind(text, "}") + 1

\* The fallback structure: the whole raw text as summary.
Fallback(text) ==
    Dict(<< <<"summary", Str(text)>>,
            <<"action_items", List(<<>>)>>,
            <<"decisions", List(<<>>)>> >>)

\* Lines 95-126: the inner try for response text `text`: the value it
\* returns, or the exception that leaves it.  Only JSONDecodeError is handled
\* here (line 119).
ExtractDigest(text) ==
    IF StartIdx(text) # -1 /\ EndIdx(text) # 0
    THEN LET parsed == JsonLoads(Slice(text, StartIdx(text), EndIdx(text))) IN
         IF parsed.ok THEN [raised |-> "", val |-> parsed.val]
         ELSE IF parsed.err = "JSONDecodeError"
             THEN [raised |-> "", val |-> Fallback(text)]
         ELSE [raised |-> parsed.err, val |-> None]
    ELSE [raised |-> "", val |-> Fallback(text)]

-----------------------------------------------------------------------------
(* datetime *)

\* A datetime is [min, sec]: whole minutes and the seconds within the minute.

\* datetime.timestamp(): epoch seconds
Timestamp(dt) == dt.min * 60 + dt.sec

\* datetime.fromtimestamp(float(ts))
FromTimestamp(ts) == [min |-> ts \div 60, sec |-> ts % 60]

\* strftime('%B %d, %Y %H:%M'): the rendering stops at the minute
Strftime(dt) == <<"%B %d, %Y %H:%M", dt.min>>

-----------------------------------------------------------------------------
(* The environment: what the external clients can answer *)

ChannelId == "C07DXJHBVR9"

Windows ==
    { [start_time |-> [min |-> 0, sec |-> 30], end_time |-> [min |-> 2, sec |-> 0]],
      [start_time |-> [min |-> 1, sec |-> 0], end_time |-> [min |-> 1, sec |-> 45]] }

\* A message carries ts and, optionally, text.
NoText == "<no text key>"

\* The two messages of the n-th page when it is not empty: the pages of one
\* history hold different messages, the second of each has no text.
PageFull(n) ==
    << [ts |-> 60 * n + 1, text |-> "hello"], [ts |-> 60 * n + 15, text |-> NoText] >>

PageMessages(n) == { <<>>, PageFull(n) }

Cursors == {"c1", "c2"}
NoCursor == "<no cursor argument>"

\* The n-th page of a run.  has_more is "True", "False" or "missing" (the
\* response has no has_more key); only a page that announces more pages carries
\* a cursor, and the last page the API serves announces none.
Pages(n) ==
    { [messages |-> m, has_more |-> "True", next_cursor |-> c] :
          m \in (IF n < MaxPages THEN PageMessages(n) ELSE {}), c \in Cursors }
    \cup
    { [messages |-> m, has_more |-> h, next_cursor |-> ""] :
          m \in PageMessages(n), h \in {"False", "missing"} }

NoPage == [messages |-> <<>>, has_more |-> "missing", next_cursor |-> ""]

\* A conversations_history call returns a page, raises SlackApiError, or
\* raises an exception of another class (the HTTP layer's connection errors).
HistoryOutcomes(n) ==
    { [kind |-> "page", page |-> p] : p \in Pages(n) }
    \cup { [kind |-> k, page |-> NoPage] : k \in {"SlackApiError", "URLError"} }

\* Prose the model may put before and after its JSON.
Prefixes == { <<>>, <<"Sure!">>, <<"{">>, <<"}">> }
Suffixes == { <<>>, <<"Hope this helps!">>, <<"}">>, <<"{">> }

\* The test_summary of test_formatting, as the model would write it.
TestSummaryText ==
    << "{", "\"summary\"", ":", "\"Test summary\"", ",",
       "\"action_items\"", ":", "[", "\"Item 1\"", ",", "\"Item 2\"", "]", ",",
       "\"decisions\"", ":", "[", "\"Decision 1\"", "]", "}" >>

Bodies ==
    { <<>>,
      <<"{", "}">>,
      TestSummaryText,
      << "{", "\"summary\"", ":", "\"Test summary\"", ",",
         "\"action_items\"", ":", "[", "]", ",",
         "\"decisions\"", ":", "[", "\"Decision 1\"", "]", "}" >>,
      << "{", "\"summary\"", ":", "\"Test summary\"", ",",
         "\"action_items\"", ":", "[", "\"Item 1\"", "]", ",",
         "\"decisions\"", ":", "[", "]", "}" >>,
      << "{", "\"summary\"", ":", "\"Test summary\"", ",",
         "\"action_items\"", ":", "[", "]", ",",
         "\"decisions\"", ":", "[", "]", "}" >>,
      << "{", "\"summary\"", ":", "\"Test summary\"", "}" >>,
      << "{", "\"summary\"", ":", "null", ",",
         "\"action_items\"", ":", "[", "]", ",",
         "\"decisions\"", ":", "[", "]", "}" >>,
      << "{", "\"summary\"", ":", "\"Test summary\"", ",",
         "\"action_items\"", ":", "\"Item 1\"", ",",
         "\"decisions\"", ":", "false", "}" >>,
      << "{", "\"summary\"", ":", "\"Test summary\"", ",",
         "\"action_items\"", ":", "1", ",",
         "\"decisions\"", ":", "[", "]", "}" >>,
      << "{", "\"summary\"", ":", "\"Test summary\"", ",",
         "\"action_items\"", ":", "[", "1.5", ",", "NaN", ",", "true", ",", "0", "]", ",",
         "\"decisions\"", ":", "{", "\"Item 2\"", ":", "null", "}", "}" >>,
      << "{", "\"summary\"", ":", "\"Test summary\"", ",",
         "\"action_items\"", ":", "-0.0", ",",
         "\"decisions\"", ":", "[", "0.0", "]", "}" >>,
      << "{", "\"summary\"", ":", DeepOpen, DeepClose, "}" >>,
      << "{", "\"summary\"", ":", DeepOpen, "}" >>,
      << "{", "\"summary\"", ":", "{", "\"decisions\"", ":", "\"Item 1\"", "}", "}" >>,
      << "{", "\"summary\"", ":", "\"Test summary\"" >>,
      << "{", "\"summary\"", ":", "\"Test summary\"", ",", "}" >> }

NoReply == [kind |-> "none", pre |-> <<>>, body |-> <<>>, post |-> <<>>]

\* messages.create returns text content, raises (APIError), or returns a
\* response whose content list is empty (response.content[0]: IndexError).
Replies ==
    { [kind |-> "text", pre |-> a, body |-> b, post |-> c] :
          a \in Prefixes, b \in Bodies, c \in Suffixes }
    \cup { [kind |-> k, pre |-> <<>>, body |-> <<>>, post |-> <<>>] :
               k \in {"APIError", "IndexError"} }

\* response.content[0].text
ReplyText(r) == r.pre \o r.body \o r.post

WriteOutcomes == {"ok", "OSError"}
PostOutcomes == {"ok", "SlackApiError", "URLError"}

-----------------------------------------------------------------------------
(* fetch_messages *)

\* The keyword arguments of a conversations_history call.
Request(cursor) ==
    [channel |-> ChannelId,
     oldest  |-> Timestamp(window.start_time),
     latest  |-> Timestamp(window.end_time),
     cursor  |-> cursor,
     limit   |-> PageLimit]

\* result.get("has_more", False)
HasMore(page) == page.has_more = "True"

ExtendReplacing(acc, page) == page.messages
\* messages.extend(result["messages"])
Extend(acc, page) == acc \o page.messages

\* result["response_metadata"]["next_cursor"]
NextCursor(page) == page.next_cursor

\* except SlackApiError: return []
OnSlackApiError == <<>>

\* One conversations_history call with the given cursor and everything
\* fetch_messages does with its outcome up to its next call or its return.
HistoryCall(cursor) ==
    /\ requests' = Append(requests, Request(cursor))
    /\ \E out \in HistoryOutcomes(Len(history) + 1) :
          IF out.kind = "page"
          THEN /\ history' = Append(history, out.page)
               /\ messages' = Extend(messages, out.page)
               /\ pc' = IF HasMore(out.page) THEN "paginate" ELSE "generate"
               /\ UNCHANGED <<fetchError, ret>>
          ELSE IF out.kind = "SlackApiError"
          THEN /\ fetchError' = out.kind
               /\ messages' = OnSlackApiError
               /\ pc' = "generate"
               /\ UNCHANGED <<history, ret>>
          ELSE /\ fetchError' = out.kind
               /\ pc' = "done"
               /\ ret' = "raised:" \o out.kind
               /\ UNCHANGED <<history, messages>>

\* Lines 216, 16-29: process_channel calls fetch_messages, which asks for the
\* first page.
FetchFirstPage ==
    /\ pc = "fetch"
    /\ calls' = Append(calls, "fetch_messages")
    /\ HistoryCall(NoCursor)
    /\ UNCHANGED <<entry, post_to_slack, window, writeMock, postMock, svcCalls,
                   reply, summary, file, file_success, formatted, posted,
                   slack_success>>

\* Lines 32-40: one turn of the pagination loop.
FetchNextPage ==
    /\ pc = "paginate"
    /\ HistoryCall(NextCursor(history[Len(history)]))
    /\ UNCHANGED <<entry, post_to_slack, window, writeMock, postMock, svcCalls,
                   reply, summary, file, file_success, formatted, posted,
                   slack_success, calls>>

-----------------------------------------------------------------------------
(* generate_summary *)

NoMessagesSentinel == Str(<<"No messages found in the specified timeframe.">>)

\* msg.get('text', '')
MsgText(m) == IF m.text = NoText THEN "" ELSE m.text

\* f"{timestamp}: {msg.get('text', '')}" for every message, in order
FormattedMessages(msgs) ==
    [i \in 1..Len(msgs) |-> <<FromTimestamp(msgs[i].ts), ":", MsgText(msgs[i])>>]

\* The arguments of messages.create.
ServiceRequest(msgs) ==
    [model |-> "claude-3-sonnet-20240229", max_tokens |-> 1000,
     messages_text |-> FormattedMessages(msgs)]

SkipsServiceNever(msgs) == FALSE
\* if not messages
SkipsService(msgs) == msgs = <<>>

\* except Exception: return None
OnServiceException == None

\* Lines 87-130: generate_summary's return value for the service's answer r.
\* Whatever the call, the reading of its content or the inner try raises
\* reaches `except Exception` (line 128).
SummaryOf(r) ==
    IF r.kind # "text" THEN OnServiceException
    ELSE IF ExtractDigest(ReplyText(r)).raised # "" THEN OnServiceException
    ELSE ExtractDigest(ReplyText(r)).val

\* Lines 221-222, 238: `if summary:` decides whether process_channel goes on.
AfterGenerate(s) ==
    IF Truthy(s)
    THEN pc' = "save" /\ ret' = ret
    ELSE pc' = "done" /\ ret' = "False"

\* Lines 52-53: no messages, no service call.
GenerateNoMessages ==
    /\ pc = "generate"
    /\ SkipsService(messages)
    /\ calls' = Append(calls, "generate_summary")
    /\ summary' = NoMessagesSentinel
    /\ AfterGenerate(summary')
    /\ UNCHANGED <<entry, post_to_slack, window, writeMock, postMock, history,
                   requests, fetchError, messages, svcCalls, reply, file,
                   file_success, formatted, posted, slack_success>>

\* Lines 55-130: the prompt is built, the service is called once.
GenerateFromService ==
    /\ pc = "generate"
    /\ ~SkipsService(messages)
    /\ calls' = Append(calls, "generate_summary")
    /\ svcCalls' = Append(svcCalls, ServiceRequest(messages))
    /\ \E r \in Replies :
          /\ reply' = r
          /\ summary' = SummaryOf(r)
    /\ AfterGenerate(summary')
    /\ UNCHANGED <<entry, post_to_slack, window, writeMock, postMock, history,
                   requests, fetchError, messages, file, file_success, formatted,
                   posted, slack_success>>

-----------------------------------------------------------------------------
(* save_to_file *)

\* One piece of a str as json.dumps writes it inside a string literal: every
\* quote and every backslash gets a backslash before it.
Escaped(p) ==
    IF p \in StrToks THEN "\\\"" \o StrVal[p] \o "\\\""
    ELSE IF p = "\"" THEN "\\\""
    ELSE IF p = "\\" THEN "\\\\"
    ELSE p

RECURSIVE JsonDumps(_), DumpsItems(_, _), DumpsPairs(_, _)

\* json.dumps(x): the tokens of the JSON text of x
JsonDumps(x) ==
    IF x.t \in {"none", "bool", "int", "float"}
        THEN <<CHOOSE tok \in LiteralToks : LiteralVal[tok] = x>>
    ELSE IF x.t = "str"
        THEN <<"\"">> \o [i \in 1..Len(x.v) |-> Escaped(x.v[i])] \o <<"\"">>
    ELSE IF x.t = "list" THEN <<"[">> \o DumpsItems(x.v, 1) \o <<"]">>
    ELSE <<"{">> \o DumpsPairs(x.v, 1) \o <<"}">>

DumpsItems(xs, i) ==
    IF i > Len(xs) THEN <<>>
    ELSE JsonDumps(xs[i])
         \o (IF i < Len(xs) THEN <<",">> ELSE <<>>)
         \o DumpsItems(xs, i + 1)

DumpsPairs(ps, i) ==
    IF i > Len(ps) THEN <<>>
    ELSE <<"\"", Escaped(ps[i][1]), "\"", ":">> \o JsonDumps(ps[i][2])
         \o (IF i < Len(ps) THEN <<",">> ELSE <<>>)
         \o DumpsPairs(ps, i + 1)

\* The file before the run: status "absent".  After a write that succeeded
\* it is "complete" and holds the transcript and the summary; after
\* open(filename, 'w') succeeded and a later write failed it is "truncated"
\* and holds some proper prefix, possibly empty, of that rendering.
NoFile == [status |-> "absent", transcript |-> <<>>, summary |-> <<>>]

\* Lines 135-143: what save_to_file writes.
FileContent(msgs, s) ==
    [status |-> "complete",
     transcript |-> FormattedMessages(msgs), summary |-> JsonDumps(s)]

\* Lines 134-148 when an exception ends the with block: open() failed and the
\* file is as it was, or a write failed after open() truncated the file.
FailedWrites(old, msgs, s) ==
    {old, [FileContent(msgs, s) EXCEPT !.status = "truncated"]}

PyBool(b) == IF b THEN "True" ELSE "False"

\* Lines 224, 132-148, line 229, then lines 236-238 when no post was requested.
SaveToFile ==
    /\ pc = "save"
    /\ calls' = Append(calls, "save_to_file")
    /\ file_success' = PyBool(writeMock = "ok")
    /\ file' \in (IF writeMock = "ok" THEN {FileContent(messages, summary)}
                  ELSE FailedWrites(file, messages, summary))
    /\ slack_success' = "True"
    /\ IF post_to_slack
       THEN pc' = "publish" /\ UNCHANGED ret
       ELSE /\ ret' = PyBool(file_success' = "True" /\ slack_success' = "True")
            /\ pc' = "done"
    /\ UNCHANGED <<entry, post_to_slack, window, writeMock, postMock, history,
                   requests, fetchError, messages, svcCalls, reply, summary,
                   formatted, posted>>

-----------------------------------------------------------------------------
(* format_slack_message *)

\* The characters of one piece of a str.
Chars(p) ==
    IF p \in DOMAIN CharsOf THEN CharsOf[p]
    ELSE IF p \in StrToks THEN <<"\"">> \o CharsOf[StrVal[p]] \o <<"\"">>
    ELSE IF p = DeepOpen THEN [i \in 1..1100 |-> "["]
    ELSE IF p = DeepClose THEN [i \in 1..1100 |-> "]"]
    ELSE <<p>>

RECURSIVE StrChars(_, _)
\* The characters of the str whose pieces are v[i..].
StrChars(v, i) ==
    IF i > Len(v) THEN <<>> ELSE Chars(v[i]) \o StrChars(v, i + 1)

\* What `for item in x` yields: the elements of a list, the characters of a
\* str, the keys of a dict.
Iter(x) ==
    IF x.t = "list" THEN x.v
    ELSE IF x.t = "str"
        THEN [i \in 1..Len(StrChars(x.v, 1)) |-> Str(<<StrChars(x.v, 1)[i]>>)]
    ELSE [i \in 1..Len(x.v) |-> Str(<<x.v[i][1]>>)]

\* "\n".join of the bulleted items of x: one line, bullet then item, per item
Bullets(x) == [i \in 1..Len(Iter(x)) |-> <<"bullet", Iter(x)[i]>>]

Section(title, body) ==
    [type |-> "section",
     text |-> [type |-> "mrkdwn", title |-> title, body |-> body]]

\* Lines 153-174: header, divider, summary section.
HeadBlocks(sd, st, et) ==
    << [type |-> "header",
        text |-> [type |-> "plain_text",
                  title |-> "Slack Digest:",
                  body |-> <<Strftime(st), "to", Strftime(et)>>]],
       [type |-> "divider"],
       Section("*Summary:*", Get(sd, "summary").v) >>

ActionItemsBlocksAlways(sd) ==
    <<Section("*Action Items:*", Bullets(Get(sd, "action_items")))>>
\* Lines 177-185: the action-items section, if action_items is truthy.
ActionItemsBlocks(sd) ==
    IF Truthy(Get(sd, "action_items"))
    THEN <<Section("*Action Items:*", Bullets(Get(sd, "action_items")))>>
    ELSE <<>>

\* Lines 188-196: the decisions section, if decisions is truthy.
DecisionsBlocks(sd) ==
    IF Truthy(Get(sd, "decisions"))
    THEN <<Section("*Key Decisions:*", Bullets(Get(sd, "decisions")))>>
    ELSE <<>>

FormatRaises(cls) == [raised |-> cls, blocks |-> <<>>]

\* Lines 150-198: the blocks, or the exception the subscripts, the string
\* concatenation and the iterations raise, in the order the code evaluates
\* them.
FormatSlackMessage(sd, st, et) ==
    IF sd.t # "dict" THEN FormatRaises("TypeError")
    ELSE IF ~HasKey(sd, "summary") THEN FormatRaises("KeyError")
    ELSE IF Get(sd, "summary").t # "str" THEN FormatRaises("TypeError")
    ELSE IF ~HasKey(sd, "action_items") THEN FormatRaises("KeyError")
    ELSE IF Truthy(Get(sd, "action_items")) /\ ~Iterable(Get(sd, "action_items"))
        THEN FormatRaises("TypeError")
    ELSE IF ~HasKey(sd, "decisions") THEN FormatRaises("KeyError")
    ELSE IF Truthy(Get(sd, "decisions")) /\ ~Iterable(Get(sd, "decisions"))
        THEN FormatRaises("TypeError")
    ELSE [raised |-> "",
          blocks |-> HeadBlocks(sd, st, et) \o ActionItemsBlocks(sd)
                     \o DecisionsBlocks(sd)]

\* One call of format_slack_message, as `formatted` records it.
FormatCall(sd, st, et) ==
    [summary_data |-> sd, start_time |-> st, end_time |-> et,
     raised |-> FormatSlackMessage(sd, st, et).raised,
     blocks |-> FormatSlackMessage(sd, st, et).blocks]

-----------------------------------------------------------------------------
(* post_to_slack and the end of process_channel *)

\* One chat_postMessage request, as `posted` records it.
PostCall(blocks) ==
    [channel |-> ChannelId, blocks |-> blocks, delivered |-> postMock = "ok"]

\* Lines 230-238, 200-211: the blocks are formatted and posted, and
\* process_channel returns file_success and slack_success.
Publish ==
    /\ pc = "publish"
    /\ LET f == FormatCall(summary, window.start_time, window.end_time) IN
       /\ formatted' = Append(formatted, f)
       /\ IF f.raised # ""
          THEN /\ calls' = Append(calls, "format_slack_message")
               /\ ret' = "raised:" \o f.raised
               /\ UNCHANGED <<posted, slack_success>>
          ELSE /\ calls' = calls \o <<"format_slack_message", "post_to_slack">>
               /\ posted' = Append(posted, PostCall(f.blocks))
               /\ IF postMock \in {"ok", "SlackApiError"}
                  THEN /\ slack_success' = PyBool(postMock = "ok")
                       /\ ret' = PyBool(file_success = "True"
                                        /\ slack_success' = "True")
                  ELSE /\ ret' = "raised:" \o postMock
                       /\ UNCHANGED slack_success
    /\ pc' = "done"
    /\ UNCHANGED <<entry, post_to_slack, window, writeMock, postMock, history,
                   requests, fetchError, messages, svcCalls, reply, summary, file,
                   file_success>>

-----------------------------------------------------------------------------
(* test_formatting and test_posting *)

\* Lines 242-246
TestSummary ==
    Dict(<< <<"summary", Str(<<"Test summary">>)>>,
            <<"action_items", List(<<Str(<<"Item 1">>), Str(<<"Item 2">>)>>)>>,
            <<"decisions", List(<<Str(<<"Decision 1">>)>>)>> >>)

\* dt - timedelta(hours=1)
HourBefore(dt) == [min |-> dt.min - 60, sec |-> dt.sec]

\* Lines 255-263
TestBlocks ==
    << [type |-> "section",
        text |-> [type |-> "mrkdwn", title |-> "Test message", body |-> <<>>]] >>

\* The clock is read at line 247 and again at line 248: the first reading is
\* the second one or falls in the second before it, which may be the minute
\* before it.
FirstReads(second) == {second, FromTimestamp(Timestamp(second) - 1)}

\* Lines 240-251: the test summary is formatted for the last hour and printed.
\* window.end_time stands for the reading of line 248.
TestFormatting ==
    /\ pc = "test_formatting"
    /\ \E first \in FirstReads(window.end_time) :
          formatted' = Append(formatted,
              FormatCall(TestSummary, HourBefore(first), window.end_time))
    /\ ret' = "None"
    /\ pc' = "done"
    /\ UNCHANGED <<entry, post_to_slack, window, writeMock, postMock, history,
                   requests, fetchError, messages, svcCalls, reply, summary, file,
                   file_success, posted, slack_success, calls>>

\* Lines 253-265, 200-211: the test block is posted and the outcome printed.
TestPosting ==
    /\ pc = "test_posting"
    /\ posted' = Append(posted, PostCall(TestBlocks))
    /\ ret' = IF postMock \in {"ok", "SlackApiError"} THEN "None"
              ELSE "raised:" \o postMock
    /\ pc' = "done"
    /\ UNCHANGED <<entry, post_to_slack, window, writeMock, postMock, history,
                   requests, fetchError, messages, svcCalls, reply, summary, file,
                   file_success, formatted, slack_success, calls>>

-----------------------------------------------------------------------------
(* The run *)

\* process_channel with any arguments and any environment, or one of the two
\* test functions, which take neither a publish flag nor an output file.
Init ==
    /\ entry \in {"process_channel", "test_formatting", "test_posting"}
    /\ post_to_slack \in BOOLEAN
    /\ window \in Windows
    /\ writeMock \in WriteOutcomes
    /\ postMock \in PostOutcomes
    /\ entry # "process_channel" => ~post_to_slack /\ writeMock = "ok"
    /\ entry = "test_formatting" => postMock = "ok"
    /\ pc = IF entry = "process_channel" THEN "fetch" ELSE entry
    /\ history = <<>>
    /\ requests = <<>>
    /\ fetchError = ""
    /\ messages = <<>>
    /\ svcCalls = <<>>
    /\ reply = NoReply
    /\ summary = None
    /\ file = NoFile
    /\ file_success = "unset"
    /\ formatted = <<>>
    /\ posted = <<>>
    /\ slack_success = "unset"
    /\ calls = <<>>
    /\ ret = "pending"

Next ==
    \/ FetchFirstPage
    \/ FetchNextPage
    \/ GenerateNoMessages
    \/ GenerateFromService
    \/ SaveToFile
    \/ Publish
    \/ TestFormatting
    \/ TestPosting

Spec == Init /\ [][Next]_vars

TypeOK ==
    /\ pc \in {"fetch", "paginate", "generate", "save", "publish", "done",
               "test_formatting", "test_posting"}
    /\ ret \in {"pending", "True", "False", "None", "raised:URLError",
                "raised:TypeError", "raised:KeyError"}
    /\ file_success \in {"unset", "True", "False"}
    /\ slack_success \in {"unset", "True", "False"}
    /\ file.status \in {"absent", "complete", "truncated"}
    /\ Len(history) <= MaxPages
    /\ summary.t \in {"none", "str", "dict"}

-----------------------------------------------------------------------------
(* Vocabulary of the properties *)

Called(name) == \E i \in 1..Len(calls) : calls[i] = name

RECURSIVE ConcatPages(_, _)
\* The messages of pages i.. of hist, page after page.
ConcatPages(hist, i) ==
    IF i > Len(hist) THEN <<>>
    ELSE hist[i].messages \o ConcatPages(hist, i + 1)

Occurs(text, c) == \E i \in 1..Len(text) : text[i] = c

\* 1-based positions of the first "{" and the last "}" of a text holding them.
FirstOpen(text) ==
    CHOOSE i \in 1..Len(text) : text[i] = "{" /\ ~Occurs(SubSeq(text, 1, i - 1), "{")
LastClose(text) ==
    CHOOSE i \in 1..Len(text) :
        text[i] = "}" /\ ~Occurs(SubSeq(text, i + 1, Len(text)), "}")

\* The text with each run of 1100 brackets shortened to one bracket: it is
\* JSON exactly when the text is, and it is within every parser's depth.
Shallow(text) ==
    [i \in 1..Len(text) |->
        IF text[i] = DeepOpen THEN "["
        ELSE IF text[i] = DeepClose THEN "]"
        ELSE text[i]]

\* The text is JSON by the grammar, whatever its depth.
IsJson(text) == JsonLoads(Shallow(text)).ok

\* The text is one well-formed JSON object.
IsJsonObject(text) == text # <<>> /\ text[1] = "{" /\ IsJson(text)

\* The span from the first "{" to the last "}" is missing or is not JSON.
NoParsableSpan(text) ==
    \/ ~Occurs(text, "{")
    \/ ~Occurs(text, "}")
    \/ LastClose(text) < FirstOpen(text)
    \/ ~IsJson(SubSeq(text, FirstOpen(text), LastClose(text)))

\* A field holds at least one item.
NonEmpty(x) == x.t \in {"list", "str", "dict"} /\ x.v # <<>>

IsFallbackOf(s, text) ==
    /\ s.t = "dict"
    /\ Len(s.v) = 3
    /\ HasKey(s, "summary") /\ Get(s, "summary") = Str(text)
    /\ HasKey(s, "action_items") /\ Get(s, "action_items") = List(<<>>)
    /\ HasKey(s, "decisions") /\ Get(s, "decisions") = List(<<>>)

IsSection(b, title) == b.type = "section" /\ b.text.title = title

CountSections(bs, title) ==
    Cardinality({i \in 1..Len(bs) : IsSection(bs[i], title)})

-----------------------------------------------------------------------------
(* C1 *)

\* C1: when every history request returns a page, fetch_messages returns the
\* concatenation of the pages' messages in the order returned, every request
\* after the first carries the cursor of the page received just before it, and
\* no request follows a page whose more-pages flag is not true.
C1_FetchReturnsConcatenation ==
    fetchError = "" =>
        /\ Len(requests) = Len(history)
        /\ \A i \in 1..Len(requests) :
              requests[i].cursor =
                  IF i = 1 THEN NoCursor ELSE history[i - 1].next_cursor
        /\ \A i \in 1..(Len(history) - 1) : history[i].has_more = "True"
        /\ (entry = "process_channel" /\ pc \notin {"fetch", "paginate"}) =>
              /\ history # <<>>
              /\ history[Len(history)].has_more # "True"
              /\ messages = ConcatPages(history, 1)

\* Two pages came back, cursor c2 then none, and their four messages were
\* returned in page order.
C1_Witness ==
    /\ pc = "generate"
    /\ fetchError = ""
    /\ Len(history) = 2
    /\ history[1].messages = PageFull(1) /\ history[1].next_cursor = "c2"
    /\ history[2].messages = PageFull(2)
    /\ requests[2].cursor = "c2"
    /\ Len(messages) = 4
    /\ messages = PageFull(1) \o PageFull(2)

-----------------------------------------------------------------------------
(* C4 *)

\* C4: whenever a history request fails, on the first page or a later one,
\* fetch_messages returns the empty list and the failure does not leave it.
C4_AnyFetchFailureReturnsEmpty ==
    fetchError # "" =>
        /\ messages = <<>>
        /\ pc # "paginate"
        /\ ~(pc = "done" /\ calls = <<"fetch_messages">>)

\* The part of C4 the code keeps: a request that raises SlackApiError makes
\* fetch_messages return the empty list, whatever was accumulated before.
SlackApiErrorReturnsEmpty ==
    fetchError = "SlackApiError" =>
        messages = <<>> /\ pc \notin {"fetch", "paginate"} /\ Called("generate_summary") = (pc # "generate")

-----------------------------------------------------------------------------
(* C5 *)

\* C5: with no messages generate_summary returns the "no messages" sentinel
\* and the generation service is not called; the service is called at most
\* once, and only with a non-empty message list.
C5_NoMessagesNoServiceCall ==
    /\ Len(svcCalls) <= 1
    /\ svcCalls # <<>> => messages # <<>>
    /\ (Called("generate_summary") /\ messages = <<>>) =>
           summary = NoMessagesSentinel /\ svcCalls = <<>> /\ reply = NoReply
    /\ (Called("generate_summary") /\ messages # <<>>) => Len(svcCalls) = 1

\* An empty fetch was summarised: the sentinel came back without a service call.
C5_Witness ==
    /\ Called("generate_summary")
    /\ fetchError = ""
    /\ messages = <<>>
    /\ summary = NoMessagesSentinel
    /\ svcCalls = <<>>

-----------------------------------------------------------------------------
(* C6 *)

\* C6: the model output is one well-formed JSON object with any prose before
\* and after it, and generate_summary returns a Digest: the object, with the
\* fields the parser reads from it.
C6_AnyProseAroundObject ==
    (reply.kind = "text" /\ IsJsonObject(reply.body)) =>
        /\ summary.t = "dict"
        /\ JsonLoads(reply.body).ok => summary = JsonLoads(reply.body).val

\* The part of C6 the code keeps: an object the parser can read, preceded by
\* prose that holds no "{" and followed by prose that holds no "}", comes back
\* parsed.
ReadableObjectInBraceFreeProse ==
    (/\ reply.kind = "text"
     /\ reply.body # <<>> /\ reply.body[1] = "{"
     /\ JsonLoads(reply.body).ok
     /\ ~Occurs(reply.pre, "{")
     /\ ~Occurs(reply.post, "}")) =>
        summary = JsonLoads(reply.body).val

-----------------------------------------------------------------------------
(* C7 *)

\* C7: when the model output has no "{", no "}", its last "}" before its
\* first "{", or a span from first "{" to last "}" that is not JSON,
\* generate_summary returns the fallback Digest: the whole raw text as
\* summary, empty action_items and decisions; it does not return None.
C7_UnparsableOutputFallsBack ==
    (reply.kind = "text" /\ NoParsableSpan(ReplyText(reply))) =>
        IsFallbackOf(summary, ReplyText(reply))

\* The part of C7 the code keeps: the fallback Digest comes back when there is
\* no span or the parser rejects the span with JSONDecodeError.
DecodeErrorFallsBack ==
    (/\ reply.kind = "text"
     /\ \/ StartIdx(ReplyText(reply)) = -1
        \/ EndIdx(ReplyText(reply)) = 0
        \/ JsonLoads(Slice(ReplyText(reply), StartIdx(ReplyText(reply)),
                           EndIdx(ReplyText(reply)))).err = "JSONDecodeError") =>
        IsFallbackOf(summary, ReplyText(reply))

-----------------------------------------------------------------------------
(* C8 *)

\* C8: the blocks format_slack_message returns are header with the time
\* range, divider, summary section, then one action-items section exactly
\* when action_items is non-empty, then one decisions section exactly when
\* decisions is non-empty.
C8_BlockSequence ==
    \A n \in 1..Len(formatted) :
        formatted[n].raised = "" =>
            LET bs == formatted[n].blocks
                sd == formatted[n].summary_data
                hasItems == NonEmpty(Get(sd, "action_items"))
                hasDecisions == NonEmpty(Get(sd, "decisions"))
            IN /\ Len(bs) = 3 + (IF hasItems THEN 1 ELSE 0)
                              + (IF hasDecisions THEN 1 ELSE 0)
               /\ bs[1].type = "header"
               /\ bs[1].text.body = <<Strftime(formatted[n].start_time), "to",
                                      Strftime(formatted[n].end_time)>>
               /\ bs[2].type = "divider"
               /\ IsSection(bs[3], "*Summary:*")
               /\ bs[3].text.body = Get(sd, "summary").v
               /\ CountSections(bs, "*Action Items:*") = (IF hasItems THEN 1 ELSE 0)
               /\ CountSections(bs, "*Key Decisions:*")
                      = (IF hasDecisions THEN 1 ELSE 0)
               /\ hasItems => IsSection(bs[4], "*Action Items:*")
               /\ hasDecisions => IsSection(bs[Len(bs)], "*Key Decisions:*")

\* A Digest with no action items and one decision was formatted: four blocks,
\* the last one the decisions section.
C8_Witness ==
    /\ Len(formatted) = 1
    /\ formatted[1].raised = ""
    /\ Get(formatted[1].summary_data, "action_items") = List(<<>>)
    /\ Get(formatted[1].summary_data, "decisions") = List(<<Str(<<"Decision 1">>)>>)
    /\ Len(formatted[1].blocks) = 4
    /\ IsSection(formatted[1].blocks[4], "*Key Decisions:*")

-----------------------------------------------------------------------------
(* C9 *)

\* C9: an exception of the service call is caught and makes generate_summary
\* return None; its result is the sentinel exactly when there were no
\* messages, None exactly when the service call failed, and a Digest (a dict)
\* otherwise.
C9_GenerateResultKinds ==
    Called("generate_summary") =>
        /\ (summary = NoMessagesSentinel) = (messages = <<>>)
        /\ (summary.t = "none") = (reply.kind \in {"APIError", "IndexError"})
        /\ (summary.t = "dict") = (reply.kind = "text")
        /\ summary.t \in {"str", "none", "dict"}
        /\ reply.kind \in {"APIError", "IndexError"} =>
               pc = "done" /\ ret = "False"

\* The part of C9 the code keeps: the sentinel exactly for no messages, None
\* whenever the service call raised, and nothing but sentinel, None and dict.
ServiceExceptionReturnsNone ==
    Called("generate_summary") =>
        /\ (summary = NoMessagesSentinel) = (messages = <<>>)
        /\ reply.kind \in {"APIError", "IndexError"} =>
               summary = None /\ pc = "done" /\ ret = "False"
        /\ summary.t \in {"str", "none", "dict"}

-----------------------------------------------------------------------------
(* C2, C3, C10 *)

\* C2: process_channel returns True exactly when generate_summary returned
\* something other than None, the file write succeeds and, if a post was
\* requested, the post succeeds.
C2_SuccessIsConjunction ==
    (entry = "process_channel" /\ pc = "done" /\ Called("generate_summary")) =>
        ((ret = "True") =
            (/\ summary.t # "none"
             /\ writeMock = "ok"
             /\ post_to_slack => postMock = "ok"))

\* C3: process_channel ends by returning a boolean.  Stated for the runs in
\* which every Slack call either succeeds or fails with SlackApiError, the
\* failure its caller handles.
C3_NoExceptionCrossesBoundary ==
    (/\ entry = "process_channel"
     /\ pc = "done"
     /\ fetchError # "URLError"
     /\ postMock # "URLError") =>
        ret \in {"True", "False"}

\* C10: the components run in the order fetch, generate, write, publish; a
\* failed generation runs neither writer nor publisher; a failed write sends
\* no post and the run does not return True; without the publish flag the
\* publisher never runs.
C10_FailureShortCircuits ==
    /\ \E k \in 0..5 :
          calls = SubSeq(<<"fetch_messages", "generate_summary", "save_to_file",
                           "format_slack_message", "post_to_slack">>, 1, k)
    /\ (Called("generate_summary") /\ summary.t = "none") =>
           /\ ~Called("save_to_file")
           /\ ~Called("format_slack_message") /\ ~Called("post_to_slack")
           /\ ret = "False"
    /\ file_success = "False" =>
           /\ ~Called("post_to_slack")
           /\ posted = <<>>
           /\ ret # "True"
    /\ (entry = "process_channel" /\ ~post_to_slack) =>
           ~Called("format_slack_message") /\ ~Called("post_to_slack") /\ posted = <<>>

\* The parts of C10 the code keeps: the order of the components, no writer and
\* no publisher after a failed generation, no publisher without the flag, and
\* no True after a failed write.
OrderAndGenerateShortCircuit ==
    /\ \E k \in 0..5 :
          calls = SubSeq(<<"fetch_messages", "generate_summary", "save_to_file",
                           "format_slack_message", "post_to_slack">>, 1, k)
    /\ (Called("generate_summary") /\ summary.t = "none") =>
           /\ ~Called("save_to_file")
           /\ ~Called("format_slack_message") /\ ~Called("post_to_slack")
           /\ ret = "False"
    /\ file_success = "False" => ret # "True"
    /\ (entry = "process_channel" /\ ~post_to_slack) =>
           ~Called("format_slack_message") /\ ~Called("post_to_slack") /\ posted = <<>>

====
